---- MODULE Spec2Model ----
(***************************************************************************)
(* A model of sudoku.py: the topology tables, the constraint propagation   *)
(* (_assign / _eliminate), the solution enumerator (solve / _solve) and    *)
(* the puzzle generator (random_grid / _random_grid).                      *)
(*                                                                         *)
(* Characters are one-character strings, a Python str is a sequence of     *)
(* them, and a grid_map is a function from the 81 cell indices to the str  *)
(* of the digits still possible for the cell.  The mutual recursion of     *)
(* _assign and _eliminate is modelled by its call stack: one frame per     *)
(* active call, one step per loop iteration, call or return.               *)
(***************************************************************************)
EXTENDS Integers, Sequences, FiniteSets, TLC

VARIABLES
    string_of_all_digits, \* ''.join(DIGITS): the iteration order of the set DIGITS
    set_table_size,       \* what decides the iteration order of a set of ints (PEERS[i])
    grid_map,             \* the candidate grid being propagated
    stack,                \* the active _assign/_eliminate calls, innermost last
    ret,                  \* "none", or what the last finished call returned: "grid_map" or "False"
    start_map,            \* grid_map when the current top-level _assign call started
    arg,                  \* <<i, digit>> of the current top-level _assign call
    all_ok,               \* every top-level _assign call so far returned a grid_map
    calls,                \* number of top-level _assign calls made so far
    input_grid,           \* the text given to solve
    solve_pc,             \* the generator solve(grid): "new", "running", "done", "raised"
    frames,               \* the active _solve generators, innermost last
    yielded,              \* the grids this solve(grid) has yielded so far
    prev_yielded,         \* the grids the previous solve(grid) yielded in all
    solve_calls,          \* number of solve(grid) generators made so far
    gen_pc,               \* random_grid: "idle", "while", "for" (inside _random_grid), "returned"
    min_assigned_squares, \* the argument of random_grid
    symmetrical,          \* the argument of random_grid
    shuffled,             \* what is left of _shuffled(range(81)) for the loop of _random_grid
    draws,                \* the random source of the current _random_grid call
    assigned_squares,     \* the list assigned_squares of _random_grid
    result                \* <<>> for False, or the pair <<grid, solution>>

propVars == <<grid_map, stack, ret, start_map, arg, all_ok, calls>>

solveVars == <<input_grid, solve_pc, frames, yielded, prev_yielded, solve_calls>>

genVars ==
    <<gen_pc, min_assigned_squares, symmetrical, shuffled, draws, assigned_squares, result>>

vars == <<string_of_all_digits, set_table_size, propVars, solveVars, genVars>>

-----------------------------------------------------------------------------
(* Module constants *)

DigitChars == <<"1", "2", "3", "4", "5", "6", "7", "8", "9">>

DIGITS == {DigitChars[k] : k \in 1..Len(DigitChars)}

VALID_GRID_CHARS == DIGITS \cup {"0", "."}

NumCells == 81

Cells == 0..(NumCells - 1)

SeqRange(s) == {s[k] : k \in 1..Len(s)}

row_indices(i) ==
    LET start == i - (i % 9)
    IN  [k \in 1..9 |-> start + (k - 1)]

column_indices(i) ==
    LET start == i % 9
    IN  [k \in 1..9 |-> start + 9 * (k - 1)]

box_indices(i) ==
    LET start == 27 * (i \div 27) + 3 * ((i % 9) \div 3)
    IN  [k \in 1..9 |-> start + 9 * ((k - 1) \div 3) + ((k - 1) % 3)]

peer_indices(i) ==
    (SeqRange(row_indices(i)) \cup SeqRange(column_indices(i))
        \cup SeqRange(box_indices(i))) \ {i}

unit_indices(i) == <<row_indices(i), column_indices(i), box_indices(i)>>

ROWS == [r \in 1..9 |-> [k \in 1..9 |-> 9 * (r - 1) + (k - 1)]]

COLUMNS == [c \in 1..9 |-> [k \in 1..9 |-> (c - 1) + 9 * (k - 1)]]

BOXES ==
    [b \in 1..9 |->
        LET i == 27 * ((b - 1) \div 3) + 3 * ((b - 1) % 3)
        IN  [k \in 1..9 |-> i + 9 * ((k - 1) \div 3) + ((k - 1) % 3)]]

UNITS == [i \in Cells |-> unit_indices(i)]

AllUnits == ROWS \o COLUMNS \o BOXES

(* The order in which a set of small ints is iterated: by slot in a hash   *)
(* table of `size` slots (an int hashes to itself), ascending inside a     *)
(* slot.  With size 64 this is CPython's order for a 20-element set; with  *)
(* size 128 it is ascending order.                                         *)
RECURSIVE SetIteration(_, _)
SetIteration(S, size) ==
    IF S = {} THEN <<>>
    ELSE LET x == CHOOSE x \in S :
                    \A y \in S : (x % size < y % size)
                                 \/ (x % size = y % size /\ x <= y)
         IN  <<x>> \o SetIteration(S \ {x}, size)

TableSizes == {64, 128}

PeerOrders == [size \in TableSizes |-> [i \in Cells |-> SetIteration(peer_indices(i), size)]]

PEERS(size) == PeerOrders[size]

-----------------------------------------------------------------------------
(* Python str helpers *)

In(c, s) == \E k \in 1..Len(s) : s[k] = c

(* str.replace done through a set, which forgets the order of the digits:  *)
(* what is left comes out last digit first.                                *)
Replace_ThroughSet(s, c) ==
    LET t == SelectSeq(s, LAMBDA x : x # c)
    IN  [k \in 1..Len(t) |-> t[Len(t) + 1 - k]]

Replace(s, c) == SelectSeq(s, LAMBDA x : x # c)

-----------------------------------------------------------------------------
(* _assign and _eliminate as a call-stack machine.                         *)
(* A machine is [grid_map, stack, ret, peers]; a frame is                  *)
(* [fn, i, digit, pc, todo, possible_digits, k].                           *)

Frame(fn, i, digit) ==
    [fn |-> fn, i |-> i, digit |-> digit, pc |-> "entry", todo |-> <<>>,
     possible_digits |-> <<>>, k |-> 1]

Top(m) == m.stack[Len(m.stack)]

Pop(m) == SubSeq(m.stack, 1, Len(m.stack) - 1)

SetTop(m, f) == [m.stack EXCEPT ![Len(m.stack)] = f]

Return(m, value) == [m EXCEPT !.stack = Pop(m), !.ret = value]

CallFrom(m, f, callee) ==
    [m EXCEPT !.stack = Append(SetTop(m, f), callee), !.ret = "none"]

Goto(m, f) == [m EXCEPT !.stack = SetTop(m, f), !.ret = "none"]

(* _assign that writes the digit into the cell instead of eliminating the  *)
(* other digits one by one, then eliminates it from nothing.               *)
AssignStep_Overwrite(m) ==
    LET f == Top(m)
    IN  IF f.pc = "entry"
        THEN Goto([m EXCEPT !.grid_map[f.i] = <<f.digit>>],
                  [f EXCEPT !.pc = "loop", !.todo = <<>>])
        ELSE IF m.ret = "False" THEN Return(m, "False")
        ELSE IF f.todo = <<>> THEN Return(m, "grid_map")
        ELSE CallFrom(m, [f EXCEPT !.todo = Tail(f.todo)],
                      Frame("_eliminate", f.i, Head(f.todo)))

(* _assign that does not look at what _eliminate returned. *)
AssignStep_IgnoresFailure(m) ==
    LET f == Top(m)
    IN  IF f.pc = "entry"
        THEN Goto(m, [f EXCEPT !.pc = "loop",
                               !.todo = Replace(m.grid_map[f.i], f.digit)])
        ELSE IF f.todo = <<>> THEN Return(m, "grid_map")
        ELSE CallFrom(m, [f EXCEPT !.todo = Tail(f.todo)],
                      Frame("_eliminate", f.i, Head(f.todo)))

(* One step of an active _assign call. *)
AssignStep(m) ==
    LET f == Top(m)
    IN  IF f.pc = "entry"
        THEN Goto(m, [f EXCEPT !.pc = "loop",
                               !.todo = Replace(m.grid_map[f.i], f.digit)])
        ELSE IF m.ret = "False" THEN Return(m, "False")
        ELSE IF f.todo = <<>> THEN Return(m, "grid_map")
        ELSE CallFrom(m, [f EXCEPT !.todo = Tail(f.todo)],
                      Frame("_eliminate", f.i, Head(f.todo)))

(* _eliminate, from its call to the end of the branch on what is left of  *)
(* the cell's possible digits.                                             *)
EliminateEntry(m, f) ==
    IF ~In(f.digit, m.grid_map[f.i])
    THEN Return(m, "grid_map")
    ELSE LET possible_digits == Replace(m.grid_map[f.i], f.digit)
             m1 == [m EXCEPT !.grid_map[f.i] = possible_digits]
         IN  IF Len(possible_digits) = 0 THEN Return(m1, "False")
             ELSE IF Len(possible_digits) = 1
             THEN Goto(m1, [f EXCEPT !.pc = "peers",
                                     !.possible_digits = possible_digits,
                                     !.todo = m.peers[f.i]])
             ELSE Goto(m1, [f EXCEPT !.pc = "units",
                                     !.possible_digits = possible_digits])

(* _eliminate: one iteration of all(_eliminate(grid_map, peer, ...) ...).  *)
EliminatePeers(m, f) ==
    IF m.ret = "False" THEN Return(m, "False")
    ELSE IF f.todo = <<>>
    THEN Goto(m, [f EXCEPT !.pc = "units"])
    ELSE CallFrom(m, [f EXCEPT !.todo = Tail(f.todo)],
                  Frame("_eliminate", Head(f.todo), f.possible_digits[1]))

(* EliminateUnits without the assignment of a digit to its only place. *)
EliminateUnits_NoHiddenSingle(m, f) ==
    IF m.ret = "False" THEN Return(m, "False")
    ELSE IF f.k > 3 THEN Return(m, "grid_map")
    ELSE LET unit == UNITS[f.i][f.k]
             places == SelectSeq(unit, LAMBDA i2 : In(f.digit, m.grid_map[i2]))
         IN  IF Len(places) = 0 THEN Return(m, "False")
             ELSE Goto(m, [f EXCEPT !.k = f.k + 1])

(* _eliminate: one iteration of the loop over UNITS[i]. *)
EliminateUnits(m, f) ==
    IF m.ret = "False" THEN Return(m, "False")
    ELSE IF f.k > 3 THEN Return(m, "grid_map")
    ELSE LET unit == UNITS[f.i][f.k]
             places == SelectSeq(unit, LAMBDA i2 : In(f.digit, m.grid_map[i2]))
         IN  IF Len(places) = 0 THEN Return(m, "False")
             ELSE IF Len(places) = 1
             THEN CallFrom(m, [f EXCEPT !.k = f.k + 1],
                           Frame("_assign", places[1], f.digit))
             ELSE Goto(m, [f EXCEPT !.k = f.k + 1])

(* One step of an active _eliminate call. *)
EliminateStep(m) ==
    LET f == Top(m)
    IN  IF f.pc = "entry" THEN EliminateEntry(m, f)
        ELSE IF f.pc = "peers" THEN EliminatePeers(m, f)
        ELSE EliminateUnits(m, f)

Halted(m) == m.stack = <<>>

PropStep(m) ==
    IF Top(m).fn = "_assign" THEN AssignStep(m) ELSE EliminateStep(m)

(* Run a machine until its outermost call has returned: 2^RunDepth steps   *)
(* at most, by repeated doubling.                                          *)
RunDepth == 16

RECURSIVE RunLevel(_, _)
RunLevel(m, k) ==
    IF Halted(m) THEN m
    ELSE IF k = 0 THEN PropStep(m)
    ELSE LET h == RunLevel(m, k - 1)
         IN  IF Halted(h) THEN h ELSE RunLevel(h, k - 1)

Machine(g, peers, st) ==
    [grid_map |-> g, stack |-> st, ret |-> "none", peers |-> peers]

(* _assign(grid_map, i, digit) run to its return: [ok, grid_map], ok being *)
(* the truth value of what the call returns, grid_map the mutated dict.    *)
_assign(g, peers, i, digit) ==
    LET m == RunLevel(Machine(g, peers, <<Frame("_assign", i, digit)>>), RunDepth)
    IN  [ok |-> m.ret = "grid_map", grid_map |-> m.grid_map]

-----------------------------------------------------------------------------
(* Input grids.  A grid is written as nine numbers, one per row, a 0 for   *)
(* an unknown cell; its text is the rows' characters, a newline after each *)
(* row, which normalize strips.                                            *)

RECURSIVE Pow10(_)
Pow10(n) == IF n = 0 THEN 1 ELSE 10 * Pow10(n - 1)

CharOf(v) == IF v = 0 THEN "0" ELSE DigitChars[v]

RowText(n) == [k \in 1..9 |-> CharOf((n \div Pow10(9 - k)) % 10)] \o <<"\n">>

GridText(rows) ==
    RowText(rows[1]) \o RowText(rows[2]) \o RowText(rows[3]) \o
    RowText(rows[4]) \o RowText(rows[5]) \o RowText(rows[6]) \o
    RowText(rows[7]) \o RowText(rows[8]) \o RowText(rows[9])

InputRows ==
    << <<0, 7305001, 51876403, 548132976, 729564138,
         136798245, 372689514, 814253769, 695417382>>,
       <<400020057, 60005021, 50070003, 32970, 709064130,
         6090000, 689000, 810050060, 5417382>>,
       <<80001607, 67300020, 0, 548000076, 20004130,
         136098240, 302080514, 4003009, 600400380>>,
       <<83020050, 60000000, 251076490, 548132976, 9064100,
         100700200, 70689004, 800003769, 407002>> >>

NumInputs == Len(InputRows)

(* The text of input n with, when digit # "", the character of cell i      *)
(* overwritten by digit.                                                   *)
Overwritten(text, i, digit) ==
    IF digit = "" THEN text
    ELSE [text EXCEPT ![i + (i \div 9) + 1] = digit]

-----------------------------------------------------------------------------
(* Public API: normalize, is_valid *)

normalize_raises(grid) ==
    Len(SelectSeq(grid, LAMBDA c : c \in VALID_GRID_CHARS)) # NumCells

normalize(grid) ==
    LET normalized == SelectSeq(grid, LAMBDA c : c \in VALID_GRID_CHARS)
    IN  [k \in 1..Len(normalized) |->
            IF normalized[k] = "0" THEN "." ELSE normalized[k]]

(* grid[i] of a normalized grid, i counted from 0 as in the source *)
At(grid, i) == grid[i + 1]

is_valid(grid) ==
    LET g == normalize(grid)
        units == AllUnits
    IN  \A u \in 1..Len(units) :
            LET values == SelectSeq([k \in 1..9 |-> At(g, units[u][k])],
                                    LAMBDA c : c # ".")
            IN  Len(values) = Cardinality(SeqRange(values))

-----------------------------------------------------------------------------
(* Private API: building a grid_map *)

_grid_map_all_digits(all_digits) == [i \in Cells |-> all_digits]

(* The loop of _grid_map_propogated over the cells lo..hi of grid, in index *)
(* order, stopping at the first _assign that fails; the range is halved to *)
(* keep the evaluation shallow.                                            *)
RECURSIVE PropagateRange(_, _, _, _, _)
PropagateRange(g, peers, grid, lo, hi) ==
    IF lo = hi
    THEN IF At(grid, lo) \in DIGITS
         THEN _assign(g, peers, lo, At(grid, lo))
         ELSE [ok |-> TRUE, grid_map |-> g]
    ELSE LET mid == (lo + hi) \div 2
             r == PropagateRange(g, peers, grid, lo, mid)
         IN  IF r.ok THEN PropagateRange(r.grid_map, peers, grid, mid + 1, hi)
             ELSE r

_grid_map_propogated(grid, all_digits, peers) ==
    PropagateRange(_grid_map_all_digits(all_digits), peers, grid, 0, Len(grid) - 1)

-----------------------------------------------------------------------------
(* What the interpreter fixes for the life of a process: the order in      *)
(* which the set DIGITS is iterated when it is joined, and the order in    *)
(* which the sets PEERS[i] are iterated.  The language promises neither.   *)

DigitOrders ==
    { DigitChars,
      <<"5", "9", "1", "4", "3", "2", "7", "6", "8">> }

InitProcess ==
    /\ string_of_all_digits \in DigitOrders
    /\ set_table_size \in TableSizes

Process == <<string_of_all_digits, set_table_size>>

-----------------------------------------------------------------------------
(* Propagation, step by step: top-level _assign calls on a grid_map, each  *)
(* executed one call-stack step at a time.                                 *)

MaxCalls == 2

CallCells == {18, 39}

StartGrids ==
    {_grid_map_all_digits(string_of_all_digits)} \cup
    {_grid_map_propogated(normalize(GridText(InputRows[n])),
                          string_of_all_digits, PEERS(set_table_size)).grid_map :
        n \in 1..NumInputs}

(* No solve(grid) generator has been made. *)
NoSolve ==
    /\ input_grid = <<>>
    /\ solve_pc = "done"
    /\ frames = <<>>
    /\ yielded = <<>>
    /\ prev_yielded = <<>>
    /\ solve_calls = 0

(* random_grid has not been called. *)
NoGen ==
    /\ gen_pc = "idle"
    /\ min_assigned_squares = 0
    /\ symmetrical = FALSE
    /\ shuffled = <<>>
    /\ draws = <<>>
    /\ assigned_squares = <<>>
    /\ result = <<>>

(* No top-level _assign call has been made. *)
NoCall ==
    /\ stack = <<>>
    /\ ret = "none"
    /\ start_map = <<>>
    /\ arg = <<0, "">>
    /\ all_ok = TRUE
    /\ calls = 0

InitProp ==
    /\ InitProcess
    /\ grid_map \in StartGrids
    /\ stack = <<>>
    /\ ret = "none"
    /\ start_map = grid_map
    /\ arg = <<0, "">>
    /\ all_ok = TRUE
    /\ calls = 0
    /\ NoSolve
    /\ NoGen

(* A caller calls _assign(grid_map, i, digit).  No caller goes on with a   *)
(* grid_map for which a call returned False.                               *)
CallAssign(i, digit) ==
    /\ stack = <<>>
    /\ all_ok
    /\ calls < MaxCalls
    /\ stack' = <<Frame("_assign", i, digit)>>
    /\ ret' = "none"
    /\ start_map' = grid_map
    /\ arg' = <<i, digit>>
    /\ calls' = calls + 1
    /\ UNCHANGED <<Process, grid_map, all_ok, solveVars, genVars>>

(* The innermost active call takes its next step. *)
Step ==
    /\ stack # <<>>
    /\ LET m == PropStep([grid_map |-> grid_map, stack |-> stack, ret |-> ret,
                          peers |-> PEERS(set_table_size)])
       IN  /\ grid_map' = m.grid_map
           /\ stack' = m.stack
           /\ ret' = m.ret
           /\ all_ok' = (all_ok /\ ~(m.stack = <<>> /\ m.ret = "False"))
    /\ UNCHANGED <<Process, start_map, arg, calls, solveVars, genVars>>

NextProp ==
    \/ \E i \in CallCells, digit \in DIGITS : CallAssign(i, digit)
    \/ Step

SpecProp == InitProp /\ [][NextProp]_vars


-----------------------------------------------------------------------------
(* The solution enumerator: _solve as the stack of its active generators.  *)
(* A search is [frames, out, raised]; a frame is [pc, ok, grid_map,        *)
(* next_i, possible_digits, n]: ok and grid_map are the argument (ok false *)
(* for the argument False), n the index of the next digit to try.          *)

SolveFrame(r) ==
    [pc |-> "entry", ok |-> r.ok, grid_map |-> r.grid_map, next_i |-> 0,
     possible_digits |-> <<>>, n |-> 1]

(* min((len(grid_map[i]), i) for i in range(81) if len(grid_map[i]) > 1)[1] *)
MinOpen(g) ==
    CHOOSE i \in Cells :
        /\ Len(g[i]) > 1
        /\ \A j \in Cells :
              Len(g[j]) > 1 =>
                  \/ Len(g[i]) < Len(g[j])
                  \/ Len(g[i]) = Len(g[j]) /\ i <= j

PopFrame(s) == [s EXCEPT !.frames = SubSeq(s.frames, 1, Len(s.frames) - 1)]

(* _solve without its first test: the argument False is indexed like a     *)
(* grid_map, which raises.                                                 *)
SolveEntry_NoFalseTest(s, f) ==
    IF ~f.ok THEN [s EXCEPT !.raised = TRUE]
    ELSE IF \A i \in Cells : Len(f.grid_map[i]) = 1
    THEN [s EXCEPT !.frames[Len(s.frames)].pc = "yielded", !.out = <<f.grid_map>>]
    ELSE IF \A i \in Cells : Len(f.grid_map[i]) <= 1
    THEN [s EXCEPT !.raised = TRUE]
    ELSE LET next_i == MinOpen(f.grid_map)
         IN  [s EXCEPT !.frames[Len(s.frames)] =
                           [f EXCEPT !.pc = "loop", !.next_i = next_i,
                                     !.possible_digits = f.grid_map[next_i]]]

(* A _solve generator is started: the statements up to the loop. *)
SolveEntry(s, f) ==
    IF ~f.ok THEN PopFrame(s)
    ELSE IF \A i \in Cells : Len(f.grid_map[i]) = 1
    THEN [s EXCEPT !.frames[Len(s.frames)].pc = "yielded", !.out = <<f.grid_map>>]
    ELSE IF \A i \in Cells : Len(f.grid_map[i]) <= 1
    THEN [s EXCEPT !.raised = TRUE]
    ELSE LET next_i == MinOpen(f.grid_map)
         IN  [s EXCEPT !.frames[Len(s.frames)] =
                           [f EXCEPT !.pc = "loop", !.next_i = next_i,
                                     !.possible_digits = f.grid_map[next_i]]]

(* The loop over possible_digits with the digit stored in the copy of the  *)
(* grid_map directly, instead of through _assign.                          *)
SolveLoop_StoresDigit(s, f, peers) ==
    IF f.n > Len(f.possible_digits) THEN PopFrame(s)
    ELSE LET digit == f.possible_digits[f.n]
             r == [ok |-> TRUE,
                   grid_map |-> [f.grid_map EXCEPT ![f.next_i] = <<digit>>]]
         IN  [s EXCEPT !.frames =
                 Append([s.frames EXCEPT ![Len(s.frames)].n = f.n + 1],
                        SolveFrame(r))]

(* The loop over possible_digits left after its first digit. *)
SolveLoop_FirstDigitOnly(s, f, peers) ==
    IF f.n > 1 THEN PopFrame(s)
    ELSE LET digit == f.possible_digits[f.n]
             r == _assign(f.grid_map, peers, f.next_i, digit)
         IN  [s EXCEPT !.frames =
                 Append([s.frames EXCEPT ![Len(s.frames)].n = f.n + 1],
                        SolveFrame(r))]

(* One iteration of the loop over possible_digits: the inner generator is  *)
(* made on the assigned copy of grid_map.                                  *)
SolveLoop(s, f, peers) ==
    IF f.n > Len(f.possible_digits) THEN PopFrame(s)
    ELSE LET digit == f.possible_digits[f.n]
             r == _assign(f.grid_map, peers, f.next_i, digit)
         IN  [s EXCEPT !.frames =
                 Append([s.frames EXCEPT ![Len(s.frames)].n = f.n + 1],
                        SolveFrame(r))]

(* The innermost generator runs to its next yield, inner generator or      *)
(* return; a yield is passed up by every outer generator as it is.         *)
SearchStep(s, peers) ==
    LET f == s.frames[Len(s.frames)]
        s0 == [s EXCEPT !.out = <<>>]
    IN  IF f.pc = "entry" THEN SolveEntry(s0, f)
        ELSE IF f.pc = "loop" THEN SolveLoop(s0, f, peers)
        ELSE PopFrame(s0)

Search(r) == [frames |-> <<SolveFrame(r)>>, out |-> <<>>, raised |-> FALSE]

_to_grid(g, unassigned_squares) ==
    [k \in 1..NumCells |->
        IF Len(g[k - 1]) = 1 /\ (k - 1) \notin unassigned_squares
        THEN g[k - 1][1] ELSE "."]

-----------------------------------------------------------------------------
(* solve(grid): the caller takes the grids one by one, and may make the    *)
(* generator again for the same grid.                                      *)

MaxSolveCalls == 2

OverwriteCells == {0, 40}

SolveInputs ==
    {Overwritten(GridText(InputRows[n]), c, d) :
        n \in 1..NumInputs, c \in OverwriteCells, d \in DIGITS \cup {""}}

InitSolve ==
    /\ InitProcess
    /\ input_grid \in SolveInputs
    /\ solve_pc = "new"
    /\ frames = <<>>
    /\ yielded = <<>>
    /\ prev_yielded = <<>>
    /\ solve_calls = 1
    /\ grid_map = <<>>
    /\ NoCall
    /\ NoGen

(* The first next(): solve runs up to its loop over _solve(grid_map). *)
SolveBegin ==
    /\ solve_pc = "new"
    /\ IF normalize_raises(input_grid)
       THEN solve_pc' = "raised" /\ frames' = <<>>
       ELSE IF ~is_valid(normalize(input_grid))
       THEN solve_pc' = "done" /\ frames' = <<>>
       ELSE LET r == _grid_map_propogated(normalize(input_grid), string_of_all_digits,
                                          PEERS(set_table_size))
            IN  IF ~r.ok
                THEN solve_pc' = "done" /\ frames' = <<>>
                ELSE solve_pc' = "running" /\ frames' = <<SolveFrame(r)>>
    /\ UNCHANGED <<Process, propVars, genVars, input_grid, yielded, prev_yielded, solve_calls>>

(* The search goes on by one step; a solved grid_map reaching solve is     *)
(* yielded as a grid.                                                      *)
SolveStep ==
    /\ solve_pc = "running"
    /\ LET s == SearchStep([frames |-> frames, out |-> <<>>, raised |-> FALSE],
                           PEERS(set_table_size))
       IN  /\ frames' = s.frames
           /\ yielded' = IF s.out = <<>> THEN yielded
                         ELSE Append(yielded, _to_grid(s.out[1], {}))
           /\ solve_pc' = IF s.raised THEN "raised"
                          ELSE IF s.frames = <<>> THEN "done"
                          ELSE "running"
    /\ UNCHANGED <<Process, propVars, genVars, input_grid, prev_yielded, solve_calls>>

(* The caller makes solve(grid) once more. *)
SolveAgain ==
    /\ solve_pc = "done"
    /\ solve_calls < MaxSolveCalls
    /\ solve_pc' = "new"
    /\ prev_yielded' = yielded
    /\ yielded' = <<>>
    /\ solve_calls' = solve_calls + 1
    /\ UNCHANGED <<Process, propVars, genVars, input_grid, frames>>

NextSolve == SolveBegin \/ SolveStep \/ SolveAgain

SpecSolve == InitSolve /\ [][NextSolve]_vars

-----------------------------------------------------------------------------
(* A consumer of _solve(grid_map) that stops after `limit` grid_maps (a     *)
(* negative limit: that takes them all), run until it stops: 2^SearchDepth *)
(* steps of the search at most, by repeated doubling.                      *)

SearchDepth == 11

Taking(r, limit) == [s |-> Search(r), outs |-> <<>>, limit |-> limit, done |-> FALSE]

TakeStep(c, peers) ==
    LET s == SearchStep(c.s, peers)
        outs == c.outs \o s.out
    IN  [c EXCEPT !.s = s, !.outs = outs,
                  !.done = s.raised \/ s.frames = <<>> \/ Len(outs) = c.limit]

RECURSIVE TakeLevel(_, _, _)
TakeLevel(c, peers, k) ==
    IF c.done THEN c
    ELSE IF k = 0 THEN TakeStep(c, peers)
    ELSE LET h == TakeLevel(c, peers, k - 1)
         IN  IF h.done THEN h ELSE TakeLevel(h, peers, k - 1)

(* list(solve(grid)): [done, grids], done saying that solve was exhausted  *)
(* without raising.                                                        *)
solve(grid, all_digits, peers) ==
    IF normalize_raises(grid) THEN [done |-> FALSE, grids |-> <<>>]
    ELSE IF ~is_valid(normalize(grid)) THEN [done |-> TRUE, grids |-> <<>>]
    ELSE LET r == _grid_map_propogated(normalize(grid), all_digits, peers)
         IN  IF ~r.ok THEN [done |-> TRUE, grids |-> <<>>]
             ELSE LET c == TakeLevel(Taking(r, -1), peers, SearchDepth)
                  IN  [done |-> c.done /\ ~c.s.raised,
                       grids |-> [k \in 1..Len(c.outs) |-> _to_grid(c.outs[k], {})]]

-----------------------------------------------------------------------------
(* The puzzle generator.  Its random source is a list of 81 numbers, one   *)
(* per cell: random.choice(grid_map[i]) returns the digit of that number   *)
(* when it is among the possible digits, and otherwise the possible digit  *)
(* at that number modulo their count.                                      *)

choice(seq, r) ==
    IF In(DigitChars[r], seq) THEN DigitChars[r]
    ELSE seq[((r - 1) % Len(seq)) + 1]

Numbers(rows) ==
    [k \in 1..NumCells |->
        (rows[((k - 1) \div 9) + 1] \div Pow10(8 - ((k - 1) % 9))) % 10]

DrawRows ==
    << <<693784512, 487512936, 125963874, 932651487, 568247391,
         741398625, 319475268, 856129743, 274836159>>,
       <<937845124, 875129361, 259638749, 326514875, 682473917,
         413986253, 194752688, 561297432, 748361596>> >>

Draws == {Numbers(DrawRows[n]) : n \in 1..Len(DrawRows)}

(* Results of random.shuffle(list(range(81))). *)
Shuffles ==
    { <<7, 9, 19, 31, 33, 35, 38, 42, 47, 49, 54, 57, 60, 64, 66, 75, 77,
        34, 72, 15, 62, 71, 39, 37, 6, 0, 10, 3, 69, 2, 41, 18, 4, 56, 73,
        28, 17, 46, 30, 44, 65, 27, 8, 52, 23, 43, 16, 53, 50, 58, 1, 20,
        22, 51, 61, 45, 48, 79, 74, 5, 21, 36, 67, 14, 12, 63, 11, 40, 24,
        26, 32, 80, 70, 13, 78, 25, 29, 68, 76, 59, 55>>,
      <<38, 42, 18, 62, 35, 45, 14, 66, 1, 79, 16, 64, 8, 72, 2, 78, 13,
        67, 29, 51, 25, 55, 28, 52, 23, 57, 30, 50, 47, 63, 5, 11, 69, 49,
        65, 73, 41, 24, 75, 15, 59, 3, 12, 37, 58, 80, 19, 7, 44, 21, 17,
        71, 32, 61, 46, 43, 20, 6, 77, 74, 56, 33, 48, 53, 27, 9, 31, 60,
        68, 4, 76, 54, 10, 40, 26, 39, 34, 0, 36, 70, 22>> }

MinAssignedInputs == {0, 28, 100}

min_unique_digits == 8

(* mirror without reversed(). *)
mirror_Forward == [i \in Cells |-> i]

mirror == [i \in Cells |-> (NumCells - 1) - i]

(* The first two statements of _random_grid with min() for max(). *)
Clamped_MinForMax(m) ==
    LET c == IF m < 17 THEN m ELSE 17
    IN  IF c < 80 THEN c ELSE 80

(* The first two statements of _random_grid. *)
Clamped(m) ==
    LET c == IF m > 17 THEN m ELSE 17
    IN  IF c < 80 THEN c ELSE 80

Outcome(kind, g, assigned, res, decided) ==
    [kind |-> kind, grid_map |-> g, assigned_squares |-> assigned,
     result |-> res, decided |-> decided]

(* The end of the loop body with "if count == 0" for "if not count == 1". *)
Checkpoint_AtLeastOne(g, assigned, min_squares, peers) ==
    LET unique_digits == {g[i] : i \in SeqRange(assigned)}
    IN  IF Len(assigned) >= min_squares
           /\ Cardinality(unique_digits) >= min_unique_digits
        THEN LET c == TakeLevel(Taking([ok |-> TRUE, grid_map |-> g], 2),
                                peers, SearchDepth)
                 count == Len(c.outs)
             IN  IF count = 0
                 THEN Outcome("break", g, assigned, <<>>, c.done)
                 ELSE Outcome("return", g, assigned,
                              <<_to_grid(g, Cells \ SeqRange(assigned)),
                                _to_grid(c.outs[count], {})>>, c.done)
        ELSE Outcome("continue", g, assigned, <<>>, TRUE)

(* The end of the loop body of _random_grid, from unique_digits on. *)
Checkpoint(g, assigned, min_squares, peers) ==
    LET unique_digits == {g[i] : i \in SeqRange(assigned)}
    IN  IF Len(assigned) >= min_squares
           /\ Cardinality(unique_digits) >= min_unique_digits
        THEN LET c == TakeLevel(Taking([ok |-> TRUE, grid_map |-> g], 2),
                                peers, SearchDepth)
                 count == Len(c.outs)
             IN  IF count # 1
                 THEN Outcome("break", g, assigned, <<>>, c.done)
                 ELSE Outcome("return", g, assigned,
                              <<_to_grid(g, Cells \ SeqRange(assigned)),
                                _to_grid(c.outs[count], {})>>, c.done)
        ELSE Outcome("continue", g, assigned, <<>>, TRUE)

(* The assignments of the loop body of _random_grid: to the cell and, for  *)
(* a symmetrical grid, to its mirror cell; the first that fails ends them. *)
RECURSIVE AssignEach(_, _, _, _, _)
AssignEach(g, assigned, squares, random, peers) ==
    IF squares = <<>>
    THEN [ok |-> TRUE, grid_map |-> g, assigned_squares |-> assigned]
    ELSE LET i == Head(squares)
             r == _assign(g, peers, i, choice(g[i], random[i + 1]))
         IN  IF ~r.ok
             THEN [ok |-> FALSE, grid_map |-> r.grid_map, assigned_squares |-> assigned]
             ELSE AssignEach(r.grid_map, Append(assigned, i), Tail(squares),
                             random, peers)

(* The loop body of _random_grid for a cell i not assigned before. *)
LoopBody(g, assigned, i, random, sym, min_squares, peers) ==
    LET other_i == mirror[i]
        squares == IF sym /\ other_i # i THEN <<i, other_i>> ELSE <<i>>
        r == AssignEach(g, assigned, squares, random, peers)
    IN  IF ~r.ok
        THEN Outcome("break", r.grid_map, r.assigned_squares, <<>>, TRUE)
        ELSE Checkpoint(r.grid_map, r.assigned_squares, min_squares, peers)

InitGen ==
    /\ InitProcess
    /\ grid_map = <<>>
    /\ NoCall
    /\ NoSolve
    /\ NoGen

(* random_grid(min_assigned_squares, symmetrical) is called. *)
random_grid(m, sym) ==
    /\ gen_pc \in {"idle", "returned"}
    /\ gen_pc' = "while"
    /\ min_assigned_squares' = m
    /\ symmetrical' = sym
    /\ result' = <<>>
    /\ UNCHANGED <<Process, propVars, solveVars, shuffled, draws, assigned_squares>>

(* The loop of random_grid calls _random_grid, which runs up to its loop. *)
_random_grid ==
    /\ gen_pc = "while"
    /\ result = <<>>
    /\ gen_pc' = "for"
    /\ grid_map' = _grid_map_all_digits(string_of_all_digits)
    /\ shuffled' \in Shuffles
    /\ draws' \in Draws
    /\ assigned_squares' = <<>>
    /\ UNCHANGED <<Process, stack, ret, start_map, arg, all_ok, calls, solveVars,
                   min_assigned_squares, symmetrical, result>>

(* One iteration of the loop of _random_grid, or its end; when the call    *)
(* returns, random_grid goes on: it returns a pair and calls again after a *)
(* False.                                                                  *)
ForIteration ==
    /\ gen_pc = "for"
    /\ LET o == IF shuffled = <<>>
                THEN Outcome("break", grid_map, assigned_squares, <<>>, TRUE)
                ELSE IF Head(shuffled) \in SeqRange(assigned_squares)
                THEN Outcome("continue", grid_map, assigned_squares, <<>>, TRUE)
                ELSE LoopBody(grid_map, assigned_squares, Head(shuffled), draws,
                              symmetrical, Clamped(min_assigned_squares),
                              PEERS(set_table_size))
       IN  /\ o.decided
           /\ grid_map' = o.grid_map
           /\ assigned_squares' = o.assigned_squares
           /\ result' = o.result
           /\ shuffled' = IF shuffled = <<>> THEN shuffled ELSE Tail(shuffled)
           /\ gen_pc' = IF o.kind = "continue" THEN "for"
                        ELSE IF o.kind = "return" THEN "returned"
                        ELSE "while"
    /\ UNCHANGED <<Process, stack, ret, start_map, arg, all_ok, calls, solveVars,
                   min_assigned_squares, symmetrical, draws>>

NextGen ==
    \/ \E m \in MinAssignedInputs, sym \in BOOLEAN : random_grid(m, sym)
    \/ _random_grid
    \/ ForIteration

SpecGen == InitGen /\ [][NextGen]_vars

-----------------------------------------------------------------------------
(* The solution enumerator: the claims *)

(* All complete grids that agree with the normalized grid g wherever g has *)
(* a digit, found cell by cell without any propagation: the grids to which *)
(* the cells lo..hi of every grid of S can be filled so that no filled     *)
(* peer holds the same digit.                                              *)
Extend(S, i) ==
    UNION { IF At(p, i) # "." THEN {p}
            ELSE {[p EXCEPT ![i + 1] = d] :
                     d \in {e \in DIGITS : \A q \in peer_indices(i) : At(p, q) # e}} :
            p \in S }

RECURSIVE ExtendRange(_, _, _)
ExtendRange(S, lo, hi) ==
    IF lo = hi THEN Extend(S, lo)
    ELSE LET mid == (lo + hi) \div 2
             T == ExtendRange(S, lo, mid)
         IN  IF T = {} THEN {} ELSE ExtendRange(T, mid + 1, hi)

IsComplete(S) ==
    /\ Len(S) = NumCells
    /\ \A k \in 1..NumCells : S[k] \in DIGITS
    /\ \A u \in 1..Len(AllUnits), d \in DIGITS :
          Cardinality({k \in 1..9 : At(S, AllUnits[u][k]) = d}) = 1

IsSolutionOf(S, g) ==
    /\ IsComplete(S)
    /\ \A k \in 1..NumCells : g[k] # "." => S[k] = g[k]

AllSolutions(g) == {S \in ExtendRange({g}, 0, NumCells - 1) : IsComplete(S)}

Holes(g) == {k \in 1..Len(g) : g[k] = "."}

(* C1: every grid solve(grid) yields is a complete solution of the grid:   *)
(* 81 digits, each digit once in every row, column and box, and the        *)
(* grid's own digit wherever the grid has one.                             *)
C1_YieldsSolutions ==
    \A k \in 1..Len(yielded) : IsSolutionOf(yielded[k], normalize(input_grid))

C1_Witness ==
    /\ Len(yielded) >= 2
    /\ Cardinality(Holes(normalize(input_grid))) > 40

(* C3: when solve(grid) is exhausted it has yielded every complete         *)
(* solution of the grid, and none twice.                                   *)
C3_YieldsAllOnce ==
    solve_pc = "done" =>
        /\ SeqRange(yielded) = AllSolutions(normalize(input_grid))
        /\ Len(yielded) = Cardinality(SeqRange(yielded))

C3_Witness ==
    /\ solve_pc = "done"
    /\ Len(yielded) >= 4

Val(c) == CHOOSE k \in 1..Len(DigitChars) : DigitChars[k] = c

Increasing(s) == \A k \in 1..(Len(s) - 1) : Val(s[k]) < Val(s[k + 1])

InOrderOf(s, order) == s = SelectSeq(order, LAMBDA c : In(c, s))

IsPrefix(a, b) == Len(a) <= Len(b) /\ \A k \in 1..Len(a) : a[k] = b[k]

(* C4 as stated: at every branching node the digits are tried smallest     *)
(* first.                                                                  *)
C4_IncreasingOrder ==
    \A k \in 1..Len(frames) :
        frames[k].pc = "loop" => Increasing(frames[k].possible_digits)

(* C4 as amended: at every branching node the digits are tried in the      *)
(* order they have in ''.join(DIGITS), the process's iteration order of    *)
(* the set DIGITS; and a second solve(grid) in the same process yields the *)
(* same grids in the same order as the first.                              *)
C4_JoinOrder ==
    /\ \A k \in 1..Len(frames) :
          frames[k].pc = "loop" =>
              /\ InOrderOf(frames[k].possible_digits, string_of_all_digits)
              /\ frames[k].possible_digits = frames[k].grid_map[frames[k].next_i]
    /\ solve_calls > 1 =>
          /\ IsPrefix(yielded, prev_yielded)
          /\ solve_pc = "done" => yielded = prev_yielded

C4_Witness ==
    /\ solve_calls > 1
    /\ Len(yielded) >= 2
    /\ \E k \in 1..Len(frames) :
          /\ frames[k].pc = "loop"
          /\ frames[k].n > 2
          /\ ~Increasing(frames[k].possible_digits)

(* C6: solve(grid) raises nothing for a grid of 81 cells; it yields        *)
(* nothing when the grid has a digit twice in a unit or the propagation of *)
(* its digits fails; and a branch of the search that fails just ends.      *)
C6_NoError ==
    /\ solve_pc # "raised"
    /\ (solve_pc = "done" /\ yielded # <<>>) =>
          /\ is_valid(normalize(input_grid))
          /\ _grid_map_propogated(normalize(input_grid), string_of_all_digits,
                                  PEERS(set_table_size)).ok
    /\ \A k \in 1..Len(frames) : ~frames[k].ok => k = Len(frames)

C6_Witness ==
    /\ solve_pc = "running"
    /\ yielded # <<>>
    /\ ~frames[Len(frames)].ok

-----------------------------------------------------------------------------
(* Propagation: the claims *)

(* What is left to do in an active call: it falls with every step the call *)
(* takes without changing grid_map.                                        *)
Work(f) ==
    IF f.fn = "_assign"
    THEN IF f.pc = "entry" THEN 10 ELSE Len(f.todo)
    ELSE IF f.pc = "entry" THEN 30
         ELSE IF f.pc = "peers" THEN 4 + Len(f.todo)
         ELSE 4 - f.k

WorkSeq(st) == [k \in 1..Len(st) |-> Work(st[k])]

LexLess(a, b) ==
    \/ Len(a) < Len(b) /\ \A k \in 1..Len(a) : a[k] = b[k]
    \/ \E j \in 1..Len(a) :
          /\ j <= Len(b)
          /\ a[j] < b[j]
          /\ \A k \in 1..(j - 1) : a[k] = b[k]

RemovesOneDigit(g, h) ==
    LET changed == {i \in Cells : h[i] # g[i]}
    IN  /\ Cardinality(changed) = 1
        /\ \A i \in changed :
              /\ Len(h[i]) = Len(g[i]) - 1
              /\ \E d \in SeqRange(g[i]) : h[i] = Replace(g[i], d)

(* C7: every step of a running _assign/_eliminate call either removes     *)
(* exactly one digit from exactly one cell's candidates and leaves every   *)
(* other cell alone (no candidate is ever added back), or leaves grid_map  *)
(* unchanged and strictly lowers the work left on the call stack (compared *)
(* outermost call first); and an _eliminate call that removes nothing      *)
(* returns at once, so that every call that stays on the stack has removed *)
(* a digit.  Hence the recursion has no cycle and every call returns.     *)
C7_StepShrinks ==
    [][stack # <<>> =>
          \/ RemovesOneDigit(grid_map, grid_map')
          \/ /\ grid_map' = grid_map
             /\ LexLess(WorkSeq(stack'), WorkSeq(stack))
             /\ (stack[Len(stack)].fn = "_eliminate" /\ stack[Len(stack)].pc = "entry")
                   => Len(stack') < Len(stack)]_vars

C7_Witness ==
    /\ stack = <<>>
    /\ calls > 0
    /\ ret = "grid_map"
    /\ \E i \in Cells \ {arg[1]} : Len(grid_map[i]) < Len(start_map[i])

(* A grid_map closed under the propagation rules. *)
Places(g, unit, d) == {k \in 1..9 : In(d, g[unit[k]])}

Closed(g) ==
    /\ \A i \in Cells : Len(g[i]) >= 1
    /\ \A i \in Cells :
          Len(g[i]) = 1 => \A p \in peer_indices(i) : ~In(g[i][1], g[p])
    /\ \A u \in 1..Len(AllUnits), d \in DIGITS :
          LET places == Places(g, AllUnits[u], d)
          IN  /\ places # {}
              /\ \A k \in places :
                    Cardinality(places) = 1 => g[AllUnits[u][k]] = <<d>>

(* C8: when every top-level _assign call made so far on a grid_map that    *)
(* started with all candidates open has returned the grid_map, the         *)
(* grid_map is closed under propagation: no cell is without a candidate,   *)
(* the digit of a one-candidate cell is a candidate of none of its peers,  *)
(* and in every unit every digit has a place, which, if it is the only     *)
(* one, holds that digit alone.                                            *)
C8_ClosedAfterAssigns == (stack = <<>> /\ all_ok) => Closed(grid_map)

C8_Witness ==
    /\ stack = <<>>
    /\ all_ok
    /\ calls = MaxCalls
    /\ \E i \in Cells : Len(grid_map[i]) > 1
    /\ \E i \in Cells \ {arg[1]} : Len(grid_map[i]) = 1 /\ Len(start_map[i]) > 1

(* C10: a top-level _assign(grid_map, i, digit) that returns the grid_map  *)
(* was called with digit among the candidates of cell i and leaves cell i  *)
(* with exactly that digit; a call with a digit that is no candidate of    *)
(* cell i returns False.                                                   *)
C10_AssignFixesCell ==
    (stack = <<>> /\ calls > 0) =>
        /\ ret = "grid_map" =>
              /\ In(arg[2], start_map[arg[1]])
              /\ grid_map[arg[1]] = <<arg[2]>>
        /\ ~In(arg[2], start_map[arg[1]]) => ret = "False"

C10_Witness ==
    /\ stack = <<>>
    /\ calls > 0
    /\ ret = "grid_map"
    /\ Len(start_map[arg[1]]) > 1
    /\ Len(start_map[arg[1]]) < Len(string_of_all_digits)

-----------------------------------------------------------------------------
(* The puzzle generator: the claims *)

Clues(grid) == {k \in 1..Len(grid) : grid[k] \in DIGITS}

(* C2: for the pair (puzzle, solution) random_grid returns, solve(puzzle)  *)
(* yields exactly one grid, and that grid is solution.                     *)
C2_PuzzleHasOneSolution ==
    gen_pc = "returned" =>
        solve(result[1], string_of_all_digits, PEERS(set_table_size))
            = [done |-> TRUE, grids |-> <<result[2]>>]

C2_Witness ==
    /\ gen_pc = "returned"
    /\ \E i \in Cells : Len(grid_map[i]) > 1
    /\ Cardinality(Clues(result[1])) < 30

(* C5: the puzzle random_grid returns has at least                         *)
(* max(17, min(min_assigned_squares, 80)) digits, so never fewer than 17.  *)
C5_EnoughClues ==
    gen_pc = "returned" =>
        /\ Cardinality(Clues(result[1])) >=
              (IF min_assigned_squares < 17 THEN 17
               ELSE IF min_assigned_squares > 80 THEN 80
               ELSE min_assigned_squares)
        /\ Cardinality(Clues(result[1])) >= 17

C5_Witness ==
    /\ gen_pc = "returned"
    /\ min_assigned_squares < 17
    /\ Cardinality(Clues(result[1])) = 17

(* C9: with symmetrical true, the cells assigned so far are closed under   *)
(* i -> 80-i and hold no cell twice whenever an iteration of the loop has  *)
(* reached its uniqueness test, and in the puzzle returned cell i is a     *)
(* digit exactly when cell 80-i is.                                        *)
C9_ClueSymmetry ==
    symmetrical =>
        /\ gen_pc \in {"for", "returned"} =>
              /\ \A k \in 1..Len(assigned_squares) :
                    (NumCells - 1) - assigned_squares[k] \in SeqRange(assigned_squares)
              /\ Cardinality(SeqRange(assigned_squares)) = Len(assigned_squares)
        /\ gen_pc = "returned" =>
              \A i \in Cells :
                  At(result[1], i) \in DIGITS
                      <=> At(result[1], (NumCells - 1) - i) \in DIGITS

C9_Witness ==
    /\ symmetrical
    /\ gen_pc = "returned"
    /\ Cardinality(Clues(result[1])) = 28
    /\ Len(assigned_squares) = 28

====
